---- MODULE Spec2Model ----
(***************************************************************************)
(* Directory scanner (felixLandlord/test_auto_agent): the command line of  *)
(* main, the walk of scan_directory, the classifier is_text_file, the      *)
(* metrics of TokenCounter, the tree of generate_tree and the document     *)
(* written by generate_markdown.                                           *)
(*                                                                         *)
(* Strings are TLA+ strings; a character is a string of length 1.  Paths   *)
(* are sequences of names (pathlib's parts).                               *)
(***************************************************************************)
EXTENDS Integers, Sequences, FiniteSets, TLC

VARIABLES
    sys_argv,        \* the command line, program name first
    rootName,        \* the name of the one directory that exists in the cwd
    fs,              \* that directory's content: relative path -> entry
    encoding,        \* TokenCounter.encoding: "None" or "cl100k_base"
    pc,              \* where main is: start, scan, render, done, exit, idle
    structure_only,  \* main's flag
    tree_mode,       \* main's flag
    directory_path,  \* Path(args[0]) as parts
    pending,         \* the rglob entries not yet visited
    files_content,   \* scan_directory's list of (path, content, counts)
    classified,      \* paths is_text_file was called on
    opened,          \* paths some open() was attempted on
    treated,         \* path -> the branch of scan_directory that recorded it
    out,             \* what generate_markdown wrote, one record per write
    written,         \* whether the output file was created
    stdout,          \* what main printed, one tag per message
    exit_code,       \* the process's exit status, -1 while running
    call             \* the last application of a pure function

vars == <<sys_argv, rootName, fs, encoding, pc, structure_only, tree_mode,
          directory_path, pending, files_content, classified, opened,
          treated, out, written, stdout, exit_code, call>>

\* ------------------------------------------------------------------ bounds

\* Longest text handed to the metrics on their own.
MaxTextLen == 4
\* The tokenizer's answers are enumerated up to this many tokens.
MaxTokens == 2
\* Most entries a scanned directory holds.
MaxEntries == 3
\* Most command-line arguments after the program name.
MaxArgs == 3

\* ---------------------------------------------------------------- strings

\* The printable ASCII characters in code-point order, 32..95 and 97..126.
AsciiLo == " !\"#$%&'()*+,-./0123456789:;<=>?@ABCDEFGHIJKLMNOPQRSTUVWXYZ[\\]^_"
AsciiHi == "abcdefghijklmnopqrstuvwxyz{|}~"

Char(s, i) == SubSeq(s, i, i)

\* Python's ord() of a character.
OrdTable ==
    [c \in {Char(AsciiLo, i) : i \in 1..Len(AsciiLo)}
           \cup {Char(AsciiHi, i) : i \in 1..Len(AsciiHi)}
           \cup {"\t", "\n", "\f", "\r"} |->
        IF c = "\t" THEN 9
        ELSE IF c = "\n" THEN 10
        ELSE IF c = "\f" THEN 12
        ELSE IF c = "\r" THEN 13
        ELSE IF \E i \in 1..Len(AsciiLo) : Char(AsciiLo, i) = c
             THEN 31 + (CHOOSE i \in 1..Len(AsciiLo) : Char(AsciiLo, i) = c)
        ELSE 96 + (CHOOSE i \in 1..Len(AsciiHi) : Char(AsciiHi, i) = c)]

Ord(c) == OrdTable[c]

\* Python's str < str: lexicographic by code point.
RECURSIVE StrLess(_, _)
StrLess(a, b) ==
    IF b = "" THEN FALSE
    ELSE IF a = "" THEN TRUE
    ELSE IF Head(a) = Head(b) THEN StrLess(Tail(a), Tail(b))
    ELSE Ord(Head(a)) < Ord(Head(b))

\* str.lower() of one character: "A".."Z" are 65..90, "a" is 97.
LowerChar(c) ==
    IF 65 <= Ord(c) /\ Ord(c) <= 90 THEN Char(AsciiHi, Ord(c) - 64) ELSE c

\* str.lower().
RECURSIVE Lower(_)
Lower(s) == IF s = "" THEN "" ELSE LowerChar(Head(s)) \o Lower(Tail(s))

\* str.startswith().
StartsWith(s, p) == Len(s) >= Len(p) /\ SubSeq(s, 1, Len(p)) = p

\* The characters str.split() separates on and the regex \s removes.
Whitespace == {" ", "\t", "\n", "\r", "\f"}

\* PurePath.suffix: from the last dot of the name, unless that dot is the
\* name's first or last character.
Suffix(name) ==
    LET dots == {i \in 1..Len(name) : Char(name, i) = "."}
    IN  IF dots = {} THEN ""
        ELSE LET p == CHOOSE i \in dots : \A j \in dots : j <= i
             IN  IF 1 < p /\ p < Len(name) THEN SubSeq(name, p, Len(name))
                 ELSE ""

\* ----------------------------------------------------------- static tables

SKIP_DIRS ==
    {".git", ".venv", "__pycache__", "node_modules", ".idea", ".vscode",
     ".DS_Store", "LICENSE", "uv.lock", ".python-version", ".env",
     ".pytest_cache"}

text_extensions ==
    {".txt", ".md", ".py", ".js", ".html", ".css", ".json", ".xml", ".yml",
     ".yaml", ".ini", ".cfg", ".conf", ".log", ".csv", ".sql", ".sh", ".bat",
     ".ps1", ".rb", ".go", ".java", ".cpp", ".c", ".h", ".php", ".pl", ".r",
     ".scala", ".kt", ".swift", ".ts", ".jsx", ".tsx", ".vue", ".svelte",
     ".sass", ".scss", ".less", ".dockerfile", ".gitignore", ".env", ".toml",
     ".lock"}

ext_mapping ==
    [e \in {".py", ".js", ".ts", ".html", ".css", ".scss", ".sass", ".json",
            ".xml", ".yml", ".yaml", ".sql", ".sh", ".bat", ".ps1", ".rb",
            ".go", ".java", ".cpp", ".c", ".h", ".php", ".pl", ".r", ".scala",
            ".kt", ".swift", ".jsx", ".tsx", ".vue", ".dockerfile", ".md",
            ".toml"} |->
        CASE e = ".py" -> "python"     [] e = ".js" -> "javascript"
          [] e = ".ts" -> "typescript" [] e = ".yml" -> "yaml"
          [] e = ".sh" -> "bash"       [] e = ".bat" -> "batch"
          [] e = ".ps1" -> "powershell" [] e = ".rb" -> "ruby"
          [] e = ".h" -> "c"           [] e = ".pl" -> "perl"
          [] e = ".kt" -> "kotlin"     [] e = ".md" -> "markdown"
          [] OTHER -> SubSeq(e, 2, Len(e))]

get_file_extension_for_markdown(name) ==
    LET s == Lower(Suffix(name))
    IN  IF s \in DOMAIN ext_mapping THEN ext_mapping[s] ELSE "text"

\* ------------------------------------------------------------ TokenCounter

\* len(text.split()): the maximal runs of non-whitespace characters.
count_words(text) ==
    Cardinality({i \in 1..Len(text) :
        /\ Char(text, i) \notin Whitespace
        /\ (i = 1 \/ Char(text, i - 1) \in Whitespace)})

count_characters(text) == Len(text)

\* len(re.sub(r"\s", "", text)).
count_characters_no_spaces(text) ==
    Cardinality({i \in 1..Len(text) : Char(text, i) \notin Whitespace})

estimate_gpt_tokens(text) == Len(text) \div 4

\* What encoding.encode(text) can do on a non-empty text: raise (-1), or
\* return some number of tokens, at least one and at most one per character.
EncodeOutcomes(text) ==
    {-1} \cup {n \in 1..MaxTokens : n <= Len(text)}

\* count_gpt_tokens: None is -1.  enc is self.encoding, o is what encode does.
count_gpt_tokens(text, enc, o) ==
    IF enc # "None" /\ text # "" THEN o ELSE -1

BaseCounts(text) ==
    [k \in {"words", "characters", "characters_no_spaces",
            "estimated_gpt_tokens"} |->
        CASE k = "words" -> count_words(text)
          [] k = "characters" -> count_characters(text)
          [] k = "characters_no_spaces" -> count_characters_no_spaces(text)
          [] k = "estimated_gpt_tokens" -> estimate_gpt_tokens(text)]

\* A variant that stores the precise count without testing it for None.
get_all_counts_unchecked(text, enc, o) ==
    LET counts == BaseCounts(text)
    IN  [k \in DOMAIN counts \cup {"gpt_tokens"} |->
            IF k = "gpt_tokens" THEN count_gpt_tokens(text, enc, o)
            ELSE counts[k]]

get_all_counts(text, enc, o) ==
    LET counts == BaseCounts(text)
        gpt_tokens == count_gpt_tokens(text, enc, o)
    IN  IF gpt_tokens # -1
        THEN [k \in DOMAIN counts \cup {"gpt_tokens"} |->
                 IF k = "gpt_tokens" THEN gpt_tokens ELSE counts[k]]
        ELSE counts

\* -------------------------------------------------------------- classifier

\* The chunk is f.read(1024); nullAt is the offset (from 1) of the file's
\* first null byte, 0 when it holds none.
ChunkSize == 1024

NullInChunk(f) == 1 <= f.nullAt /\ f.nullAt <= ChunkSize

MimeIsText(f) == f.mime # "" /\ StartsWith(f.mime, "text")

SuffixIsText(name) == Lower(Suffix(name)) \in text_extensions

\* Whether is_text_file gets as far as open(file_path, "rb").
SniffOpens(name, f) == ~MimeIsText(f) /\ ~SuffixIsText(name)

\* A variant that sniffs the content before consulting the allowlist.
is_text_file_sniff_first(name, f) ==
    IF MimeIsText(f) THEN TRUE
    ELSE IF f.readable /\ NullInChunk(f) THEN FALSE
    ELSE IF SuffixIsText(name) THEN TRUE
    ELSE f.readable

is_text_file(name, f) ==
    IF MimeIsText(f) THEN TRUE
    ELSE IF SuffixIsText(name) THEN TRUE
    ELSE IF ~f.readable THEN FALSE
    ELSE ~NullInChunk(f)

\* -------------------------------------------------------------- file system

\* An entry of the scanned directory.  For a file: the MIME type guessed from
\* its name ("" is None), the offset of its first null byte, whether open()
\* succeeds, and what f.read() decodes to.
DirEntry ==
    [kind |-> "dir", mime |-> "", nullAt |-> 0, readable |-> TRUE, text |-> ""]

PlainFile ==
    [kind |-> "file", mime |-> "", nullAt |-> 0, readable |-> TRUE,
     text |-> "hi there"]

FileTexts == {"", " \n", "hi there", "[Binary file]", "[Error reading file: x]"}

FileAttrs ==
    {[kind |-> "file", mime |-> m, nullAt |-> z, readable |-> TRUE, text |-> t] :
        m \in {"", "text/plain", "image/png"}, z \in {0, 1}, t \in FileTexts}
    \cup
    {[kind |-> "file", mime |-> m, nullAt |-> 0, readable |-> FALSE, text |-> ""] :
        m \in {"", "text/plain", "image/png"}}

Parent(p) == SubSeq(p, 1, Len(p) - 1)
Name(p) == p[Len(p)]

\* The names entries of the structure family carry.
TreeNames == {"a", "B", ".git"}

\* The prefix-closed sets of at most k relative paths over TreeNames.
RECURSIVE Shapes(_)
Shapes(k) ==
    IF k = 0 THEN {{}}
    ELSE LET prev == Shapes(k - 1)
         IN  prev \cup
             {S \cup {par \o <<n>>} :
                 S \in prev, par \in UNION {S \cup {<<>>} : S \in prev},
                 n \in TreeNames}

WellFormed(S) ==
    /\ Cardinality(S) <= MaxEntries
    /\ \A p \in S : Len(p) = 1 \/ Parent(p) \in S

\* Directories holding only plain readable files: every shape, every
\* assignment of kinds in which an entry with children is a directory.
StructureFs ==
    UNION {
        {[p \in S |-> IF p \in D THEN DirEntry ELSE PlainFile] :
            D \in {D \in SUBSET S : \A p \in S : Len(p) > 1 => Parent(p) \in D}}
        : S \in {S \in Shapes(MaxEntries) : WellFormed(S)}}

\* Flat directories of files with every combination of attributes.
ContentNames == {"a.txt", "data.bin"}

ContentFs ==
    UNION {[{<<n>> : n \in N} -> FileAttrs] : N \in SUBSET ContentNames}

\* The directory the command-line family scans.
CliFs == (<<"hello.txt">> :> PlainFile)

\* What exists in the working directory: the scanned directory and a file.
CwdFile == "notes.txt"
Exists(name) == name = rootName \/ name = CwdFile
IsDir(name) == name = rootName

\* directory_path.rglob("*"): every entry below the root, as a full path.
Rglob == {<<rootName>> \o p : p \in DOMAIN fs}

Entry(full) == fs[Tail(full)]

\* str(path).
RECURSIVE PathStr(_)
PathStr(p) ==
    IF Len(p) = 0 THEN "."
    ELSE IF Len(p) = 1 THEN p[1]
    ELSE PathStr(Parent(p)) \o "/" \o Name(p)

\* Path.__lt__: the parts compared as lists of strings.
RECURSIVE PathLess(_, _)
PathLess(a, b) ==
    IF Len(b) = 0 THEN FALSE
    ELSE IF Len(a) = 0 THEN TRUE
    ELSE IF a[1] = b[1] THEN PathLess(Tail(a), Tail(b))
    ELSE StrLess(a[1], b[1])

\* A variant that tests only the entry's own name.
Pruned_name_only(full) == Name(full) \in SKIP_DIRS

\* any(skip in file_path.parts for skip in SKIP_DIRS).
Pruned(full) == \E i \in 1..Len(full) : full[i] \in SKIP_DIRS

\* file_path.relative_to(base_path), the path itself on ValueError.
RelativeTo(full, base) ==
    IF Len(full) >= Len(base) /\ SubSeq(full, 1, Len(base)) = base
    THEN SubSeq(full, Len(base) + 1, Len(full))
    ELSE full

\* sorted(): the stable sort of s, where less[i, j] tells whether the key of
\* s[i] is less than the key of s[j].  An element lands after every element
\* that is less than it and every equal element that came before it.
Sorted(s, less) ==
    LET rank(i) ==
            1 + Cardinality({j \in 1..Len(s) :
                    less[j, i] \/ (~less[i, j] /\ j < i)})
    IN  [k \in 1..Len(s) |-> s[CHOOSE i \in 1..Len(s) : rank(i) = k]]

\* ----------------------------------------------------------- generate_tree

\* The box-drawing connectors and extensions of the source, each four
\* characters wide, written here in ASCII.
LastConnector == "L-- "
MidConnector == "|-- "
LastExtension == "    "
MidExtension == "|   "

\* A variant whose sort key is the lower-cased name alone.
TreeKeyLess_by_name(a, b) == StrLess(Lower(Name(a)), Lower(Name(b)))

\* The sort key (x.is_file(), x.name.lower()), False before True.
TreeKeyLess(a, b) ==
    LET af == fs[a].kind = "file"
        bf == fs[b].kind = "file"
    IN  \/ (~af /\ bf)
        \/ (af = bf /\ StrLess(Lower(Name(a)), Lower(Name(b))))

\* The entries of dir that walk lists, sorted; order is the order in which
\* iterdir() yields the entries of the file system.
TreeEntries(dir, order) ==
    LET Keep(p) == Parent(p) = dir /\ Name(p) \notin SKIP_DIRS
        kept == SelectSeq(order, Keep)
    IN  Sorted(kept, [i, j \in 1..Len(kept) |-> TreeKeyLess(kept[i], kept[j])])

\* walk(dir_path, prefix): the lines for entries[i..], depth first.
RECURSIVE walk(_, _, _, _)
walk(entries, i, prefix, order) ==
    IF i > Len(entries) THEN <<>>
    ELSE LET entry == entries[i]
             last == (i = Len(entries))
             connector == IF last THEN LastConnector ELSE MidConnector
             extension == IF last THEN LastExtension ELSE MidExtension
             line == [prefix |-> prefix, connector |-> connector,
                      name |-> Name(entry), path |-> entry]
         IN  <<line>>
             \o (IF fs[entry].kind = "dir"
                 THEN walk(TreeEntries(entry, order), 1, prefix \o extension, order)
                 ELSE <<>>)
             \o walk(entries, i + 1, prefix, order)

\* generate_tree: the root's name, then walk(directory_path); the lines are
\* joined by "\n".  A line's text is prefix + connector + name; path is the
\* entry the line was written for.
generate_tree(base, order) ==
    <<[prefix |-> "", connector |-> "", name |-> Name(base), path |-> <<>>]>>
    \o walk(TreeEntries(<<>>, order), 1, "", order)

LineText(line) == line.prefix \o line.connector \o line.name

\* ------------------------------------------------------- generate_markdown

\* not content.strip().
IsBlank(content) == \A i \in 1..Len(content) : Char(content, i) \in Whitespace

\* A variant that compares the content before the path.
RecordLess_content_first(a, b) ==
    \/ StrLess(a.content, b.content)
    \/ (a.content = b.content /\ PathLess(a.path, b.path))

\* sorted(files_content): tuples compare by path, then by content.
RecordLess(a, b) ==
    \/ PathLess(a.path, b.path)
    \/ (a.path = b.path /\ StrLess(a.content, b.content))

\* The writes for one record of files_content.
Section(rec, base, structureOnly) ==
    <<[kind |-> "header", path |-> RelativeTo(rec.path, base)],
      [kind |-> "full_path", path |-> rec.path]>>
    \o (IF structureOnly THEN <<>>
        ELSE IF rec.content = "[Binary file]"
             THEN <<[kind |-> "binary_note", path |-> rec.path]>>
        ELSE IF StartsWith(rec.content, "[Error reading file:")
             THEN <<[kind |-> "error_note", path |-> rec.path,
                     text |-> rec.content]>>
        ELSE IF IsBlank(rec.content)
             THEN <<[kind |-> "empty_note", path |-> rec.path]>>
        ELSE <<[kind |-> "code", path |-> rec.path,
                language |-> get_file_extension_for_markdown(Name(rec.path)),
                text |-> rec.content]>>)
    \o <<[kind |-> "rule"]>>

RECURSIVE Sections(_, _, _)
Sections(recs, base, structureOnly) ==
    IF recs = <<>> THEN <<>>
    ELSE Section(Head(recs), base, structureOnly)
         \o Sections(Tail(recs), base, structureOnly)

\* generate_markdown: what is written to the output file, one record per
\* write that carries data.
generate_markdown(files, base, structureOnly, treeMode, order) ==
    <<[kind |-> "title", name |-> Name(base)],
      [kind |-> "scanned_path", path |-> base],
      [kind |-> "total_files", n |-> Len(files)],
      [kind |-> "rule"]>>
    \o (IF treeMode
        THEN <<[kind |-> "tree", lines |-> generate_tree(base, order)]>>
        ELSE Sections(
                 Sorted(files,
                        [i, j \in 1..Len(files) |-> RecordLess(files[i], files[j])]),
                 base, structureOnly))

\* ---------------------------------------------------------- scan_directory

\* str(e) of the OSError open() raises on an unreadable file.
ErrorText(full) ==
    "[Errno 13] Permission denied: '" \o PathStr(full) \o "'"

error_msg(full) == "[Error reading file: " \o ErrorText(full) \o "]"

ZeroCounts ==
    [k \in {"words", "characters", "characters_no_spaces",
            "estimated_gpt_tokens"} |-> 0]

\* {} as a metrics map.
EmptyCounts == [k \in {} |-> 0]

\* The loop body's guards, in the order the code tests them.
VisitsFile(p) == ~Pruned(p) /\ Entry(p).kind = "file"
ReadsAsText(p) == is_text_file(Name(p), Entry(p))

\* One iteration of the loop over rglob: p is dropped from pending.
ScanPruned(p) ==
    /\ Pruned(p)
    /\ pending' = pending \ {p}
    /\ UNCHANGED <<files_content, classified, opened, treated>>

ScanNotFile(p) ==
    /\ ~Pruned(p)
    /\ Entry(p).kind # "file"
    /\ pending' = pending \ {p}
    /\ UNCHANGED <<files_content, classified, opened, treated>>

\* A variant that classifies the file before looking at structure_only.
ScanStructure_classifies(p) ==
    /\ VisitsFile(p)
    /\ structure_only
    /\ pending' = pending \ {p}
    /\ files_content' = Append(files_content,
           [path |-> p, content |-> "", counts |-> EmptyCounts])
    /\ treated' = (p :> "structure") @@ treated
    /\ classified' = classified \cup {p}
    /\ opened' = IF SniffOpens(Name(p), Entry(p)) THEN opened \cup {p} ELSE opened

ScanStructure(p) ==
    /\ VisitsFile(p)
    /\ structure_only
    /\ pending' = pending \ {p}
    /\ files_content' = Append(files_content,
           [path |-> p, content |-> "", counts |-> EmptyCounts])
    /\ treated' = (p :> "structure") @@ treated
    /\ UNCHANGED <<classified, opened>>

ScanText(p) ==
    /\ VisitsFile(p)
    /\ ~structure_only
    /\ ReadsAsText(p)
    /\ Entry(p).readable
    /\ \E o \in EncodeOutcomes(Entry(p).text) :
         files_content' = Append(files_content,
             [path |-> p, content |-> Entry(p).text,
              counts |-> get_all_counts(Entry(p).text, encoding, o)])
    /\ pending' = pending \ {p}
    /\ classified' = classified \cup {p}
    /\ opened' = opened \cup {p}
    /\ treated' = (p :> "text") @@ treated

ScanBinary(p) ==
    /\ VisitsFile(p)
    /\ ~structure_only
    /\ ~ReadsAsText(p)
    /\ files_content' = Append(files_content,
           [path |-> p, content |-> "[Binary file]", counts |-> ZeroCounts])
    /\ pending' = pending \ {p}
    /\ classified' = classified \cup {p}
    /\ opened' = IF SniffOpens(Name(p), Entry(p)) THEN opened \cup {p} ELSE opened
    /\ treated' = (p :> "binary") @@ treated

\* A variant in which the handler records the error and leaves the loop.
ScanError_aborts(p) ==
    /\ VisitsFile(p)
    /\ ~structure_only
    /\ ReadsAsText(p)
    /\ ~Entry(p).readable
    /\ \E o \in EncodeOutcomes(error_msg(p)) :
         files_content' = Append(files_content,
             [path |-> p, content |-> error_msg(p),
              counts |-> get_all_counts(error_msg(p), encoding, o)])
    /\ pending' = {}
    /\ classified' = classified \cup {p}
    /\ opened' = opened \cup {p}
    /\ treated' = (p :> "error") @@ treated

ScanError(p) ==
    /\ VisitsFile(p)
    /\ ~structure_only
    /\ ReadsAsText(p)
    /\ ~Entry(p).readable
    /\ \E o \in EncodeOutcomes(error_msg(p)) :
         files_content' = Append(files_content,
             [path |-> p, content |-> error_msg(p),
              counts |-> get_all_counts(error_msg(p), encoding, o)])
    /\ pending' = pending \ {p}
    /\ classified' = classified \cup {p}
    /\ opened' = opened \cup {p}
    /\ treated' = (p :> "error") @@ treated

ScanFrame ==
    UNCHANGED <<sys_argv, rootName, fs, encoding, pc, structure_only,
                tree_mode, directory_path, out, written, stdout, exit_code,
                call>>

ScanStepPruned == pc = "scan" /\ ScanFrame /\ \E p \in pending : ScanPruned(p)
ScanStepNotFile == pc = "scan" /\ ScanFrame /\ \E p \in pending : ScanNotFile(p)
ScanStepStructure == pc = "scan" /\ ScanFrame /\ \E p \in pending : ScanStructure(p)
ScanStepText == pc = "scan" /\ ScanFrame /\ \E p \in pending : ScanText(p)
ScanStepBinary == pc = "scan" /\ ScanFrame /\ \E p \in pending : ScanBinary(p)
ScanStepError == pc = "scan" /\ ScanFrame /\ \E p \in pending : ScanError(p)

\* -------------------------------------------------------------------- main

Range(s) == {s[i] : i \in 1..Len(s)}

\* list.remove(x): drops the first occurrence of x.
Remove(s, x) ==
    LET i == CHOOSE k \in 1..Len(s) : s[k] = x /\ \A j \in 1..(k - 1) : s[j] # x
    IN  SubSeq(s, 1, i - 1) \o SubSeq(s, i + 1, Len(s))

\* Lines 281-290 of main: the flags and what is left of sys.argv[1:].
ParsedStructureOnly == "--path" \in Range(Tail(sys_argv))

ParsedTreeMode ==
    "--path" \notin Range(Tail(sys_argv)) /\ "--path_tree" \in Range(Tail(sys_argv))

\* A variant that sets the flag and leaves it in the list.
ParsedArgs_keeps_flag == Tail(sys_argv)

ParsedArgs ==
    IF "--path" \in Range(Tail(sys_argv)) THEN Remove(Tail(sys_argv), "--path")
    ELSE IF "--path_tree" \in Range(Tail(sys_argv))
         THEN Remove(Tail(sys_argv), "--path_tree")
    ELSE Tail(sys_argv)

MainFrame ==
    UNCHANGED <<sys_argv, rootName, fs, encoding, files_content, classified,
                opened, treated, out, written, call>>

\* len(sys.argv) < 2: the usage message and sys.exit(1).
Usage ==
    /\ pc = "start"
    /\ Len(sys_argv) < 2
    /\ stdout' = Append(stdout, "usage")
    /\ exit_code' = 1
    /\ pc' = "exit"
    /\ UNCHANGED <<structure_only, tree_mode, directory_path, pending>>
    /\ MainFrame

\* args[0] on an empty list: IndexError, uncaught; the interpreter prints
\* the traceback on stderr and exits with status 1.
ArgCrash ==
    /\ pc = "start"
    /\ Len(sys_argv) >= 2
    /\ ParsedArgs = <<>>
    /\ structure_only' = ParsedStructureOnly
    /\ tree_mode' = ParsedTreeMode
    /\ exit_code' = 1
    /\ pc' = "crash"
    /\ UNCHANGED <<directory_path, pending, stdout>>
    /\ MainFrame

NotExist ==
    /\ pc = "start"
    /\ Len(sys_argv) >= 2
    /\ ParsedArgs # <<>>
    /\ ~Exists(ParsedArgs[1])
    /\ structure_only' = ParsedStructureOnly
    /\ tree_mode' = ParsedTreeMode
    /\ directory_path' = <<ParsedArgs[1]>>
    /\ stdout' = Append(stdout, "error_not_exist")
    /\ exit_code' = 1
    /\ pc' = "exit"
    /\ UNCHANGED pending
    /\ MainFrame

NotDir ==
    /\ pc = "start"
    /\ Len(sys_argv) >= 2
    /\ ParsedArgs # <<>>
    /\ Exists(ParsedArgs[1])
    /\ ~IsDir(ParsedArgs[1])
    /\ structure_only' = ParsedStructureOnly
    /\ tree_mode' = ParsedTreeMode
    /\ directory_path' = <<ParsedArgs[1]>>
    /\ stdout' = Append(stdout, "error_not_dir")
    /\ exit_code' = 1
    /\ pc' = "exit"
    /\ UNCHANGED pending
    /\ MainFrame

\* The path is a directory: the tokenizer notice in full-content mode, the
\* "Scanning directory" line, and scan_directory starts on rglob's entries.
StartScan ==
    /\ pc = "start"
    /\ Len(sys_argv) >= 2
    /\ ParsedArgs # <<>>
    /\ IsDir(ParsedArgs[1])
    /\ structure_only' = ParsedStructureOnly
    /\ tree_mode' = ParsedTreeMode
    /\ directory_path' = <<ParsedArgs[1]>>
    /\ stdout' = stdout
                 \o (IF ~ParsedStructureOnly /\ ~ParsedTreeMode
                     THEN <<"tokenizer_notice">> ELSE <<>>)
                 \o <<"scanning">>
    /\ pending' = Rglob
    /\ pc' = "scan"
    /\ UNCHANGED exit_code
    /\ MainFrame

\* The orders in which iterdir() can yield the entries of the file system.
Orders ==
    {o \in [1..Cardinality(DOMAIN fs) -> DOMAIN fs] :
        \A i, j \in DOMAIN o : o[i] = o[j] => i = j}

RenderFrame ==
    UNCHANGED <<sys_argv, rootName, fs, encoding, structure_only, tree_mode,
                directory_path, pending, files_content, classified, opened,
                treated, call>>

\* scan_directory has returned: generate_markdown writes the output file,
\* main prints the two closing lines and returns.  In tree mode the document
\* depends on the order in which iterdir() lists each directory.
RenderTree ==
    /\ pc = "scan"
    /\ pending = {}
    /\ tree_mode
    /\ \E order \in Orders :
         out' = generate_markdown(files_content, directory_path,
                                  structure_only, tree_mode, order)
    /\ written' = TRUE
    /\ stdout' = stdout \o <<"completed", "total_files">>
    /\ exit_code' = 0
    /\ pc' = "done"
    /\ RenderFrame

RenderSections ==
    /\ pc = "scan"
    /\ pending = {}
    /\ ~tree_mode
    /\ out' = generate_markdown(files_content, directory_path,
                                structure_only, tree_mode, <<>>)
    /\ written' = TRUE
    /\ stdout' = stdout \o <<"completed", "total_files">>
    /\ exit_code' = 0
    /\ pc' = "done"
    /\ RenderFrame

\* ------------------------------------------------------------ specification

Flags == {"--path", "--path_tree"}

\* The words a command line is made of.
ArgWords == Flags \cup {"proj", "missing", CwdFile}

RECURSIVE SeqsUpTo(_, _)
SeqsUpTo(S, n) ==
    IF n = 0 THEN {<<>>}
    ELSE LET prev == SeqsUpTo(S, n - 1)
         IN  prev \cup {Append(s, x) : s \in prev, x \in S}

Program == "main.py"

\* The command lines of the three modes on the directory named r.
ModeLines(r) ==
    {<<Program, r>>, <<Program, r, "--path">>, <<Program, r, "--path_tree">>}

InitRun ==
    /\ pc = "start"
    /\ structure_only = FALSE
    /\ tree_mode = FALSE
    /\ directory_path = <<>>
    /\ pending = {}
    /\ files_content = <<>>
    /\ classified = {}
    /\ opened = {}
    /\ treated = <<>>
    /\ out = <<>>
    /\ written = FALSE
    /\ stdout = <<>>
    /\ exit_code = -1
    /\ call = [fn |-> "none"]

\* Three families of runs: every directory shape in the three modes, every
\* mix of file attributes in the two scanning modes, every command line.
Init ==
    /\ InitRun
    /\ \/ /\ rootName \in {"proj", "node_modules"}
          /\ fs \in StructureFs
          /\ encoding = "None"
          /\ sys_argv \in ModeLines(rootName)
       \/ /\ rootName = "proj"
          /\ fs \in ContentFs
          /\ encoding \in {"None", "cl100k_base"}
          /\ sys_argv \in {<<Program, "proj">>, <<Program, "--path", "proj">>}
       \/ /\ rootName = "proj"
          /\ fs = CliFs
          /\ encoding = "None"
          /\ sys_argv \in {<<Program>> \o a : a \in SeqsUpTo(ArgWords, MaxArgs)}

Next ==
    \/ Usage
    \/ ArgCrash
    \/ NotExist
    \/ NotDir
    \/ StartScan
    \/ ScanStepPruned
    \/ ScanStepNotFile
    \/ ScanStepStructure
    \/ ScanStepText
    \/ ScanStepBinary
    \/ ScanStepError
    \/ RenderTree
    \/ RenderSections

Spec == Init /\ [][Next]_vars

\* ------------------------------------------- the pure functions on their own

RECURSIVE StrsUpTo(_, _)
StrsUpTo(S, n) ==
    IF n = 0 THEN {""}
    ELSE LET prev == StrsUpTo(S, n - 1)
         IN  prev \cup {s \o c : s \in prev, c \in S}

\* The texts the metrics are applied to.
CountTexts == StrsUpTo({"a", " ", "\n"}, MaxTextLen) \cup FileTexts

\* The files the classifier is applied to.
ClassifyNames ==
    {"only_nulls.py", "SHOUT.PY", "data.bin", "noext", ".env", "pic.png",
     "trailing.", "archive.tar.gz"}

ClassifyAttrs ==
    [kind : {"file"},
     mime : {"", "text/plain", "image/png", "application/json"},
     nullAt : {0, 1, ChunkSize, ChunkSize + 1},
     readable : BOOLEAN,
     text : {""}]

PureFrame ==
    UNCHANGED <<sys_argv, rootName, fs, encoding, pc, structure_only,
                tree_mode, directory_path, pending, files_content,
                classified, opened, treated, out, written, stdout, exit_code>>

\* get_all_counts applied to the drawn text by a TokenCounter whose encoding
\* is the drawn one; what encode() does is the tokenizer's choice.
CountCall ==
    /\ call.fn = "count"
    /\ \E o \in EncodeOutcomes(call.text) :
         call' = [fn |-> "get_all_counts", text |-> call.text,
                  enc |-> call.enc, encoded |-> o,
                  result |-> get_all_counts(call.text, call.enc, o)]
    /\ PureFrame

\* is_text_file applied to the drawn file.
ClassifyCall ==
    /\ call.fn = "classify"
    /\ call' = [fn |-> "is_text_file", name |-> call.name, file |-> call.file,
                result |-> is_text_file(call.name, call.file)]
    /\ PureFrame

InitPure ==
    /\ pc = "idle"
    /\ structure_only = FALSE
    /\ tree_mode = FALSE
    /\ directory_path = <<>>
    /\ pending = {}
    /\ files_content = <<>>
    /\ classified = {}
    /\ opened = {}
    /\ treated = <<>>
    /\ out = <<>>
    /\ written = FALSE
    /\ stdout = <<>>
    /\ exit_code = -1
    /\ rootName = "proj"
    /\ fs = CliFs
    /\ encoding = "None"
    /\ sys_argv = <<Program>>
    /\ \/ call \in [fn : {"count"}, text : CountTexts,
                    enc : {"None", "cl100k_base"}]
       \/ call \in [fn : {"classify"}, name : ClassifyNames,
                    file : ClassifyAttrs]

NextPure == CountCall \/ ClassifyCall

SpecPure == InitPure /\ [][NextPure]_vars

\* ------------------------------------------------------------------ claims

BaselineKeys ==
    {"words", "characters", "characters_no_spaces", "estimated_gpt_tokens"}

\* C6 as stated: whatever the text and whether or not a tokenizer is
\* available, get_all_counts returns exactly the four baseline keys, each a
\* non-negative integer, with characters >= characters_no_spaces.
C6_ExactlyFourKeys ==
    call.fn = "get_all_counts" =>
        /\ DOMAIN call.result = BaselineKeys
        /\ \A k \in DOMAIN call.result : call.result[k] \in Nat
        /\ call.result["characters"] >= call.result["characters_no_spaces"]

\* C6 amended: get_all_counts returns the four baseline keys, and in addition
\* the key gpt_tokens exactly when a tokenizer is available, the text is not
\* empty and encode() did not raise; every value is a non-negative integer
\* and characters >= characters_no_spaces.
C6_BaselinePlusPrecise ==
    call.fn = "get_all_counts" =>
        LET precise ==
                call.enc # "None" /\ call.text # "" /\ call.encoded # -1
        IN  /\ DOMAIN call.result =
                 IF precise THEN BaselineKeys \cup {"gpt_tokens"}
                 ELSE BaselineKeys
            /\ \A k \in DOMAIN call.result : call.result[k] \in Nat
            /\ call.result["characters"] >= call.result["characters_no_spaces"]

\* A tokenizer was available and counted a text that holds whitespace.
C6_Witness ==
    /\ call.fn = "get_all_counts"
    /\ "gpt_tokens" \in DOMAIN call.result
    /\ call.result["characters"] > call.result["characters_no_spaces"]
    /\ call.result["words"] >= 2

\* C7: is_text_file decides in a fixed order: a MIME type starting with
\* "text" makes the file text; otherwise an allowlisted lower-cased suffix
\* does, whatever the bytes; otherwise the file is text exactly when its
\* first 1024 bytes hold no null byte, and binary when the read fails.
C7_ClassifierPriority ==
    call.fn = "is_text_file" =>
        LET f == call.file
            mimeText == Len(f.mime) >= 4 /\ SubSeq(f.mime, 1, 4) = "text"
            listed == Lower(Suffix(call.name)) \in text_extensions
            nullSeen == f.nullAt >= 1 /\ f.nullAt <= 1024
        IN  /\ mimeText => call.result
            /\ (~mimeText /\ listed) => call.result
            /\ (~mimeText /\ ~listed /\ ~f.readable) => ~call.result
            /\ (~mimeText /\ ~listed /\ f.readable) =>
                   (call.result <=> ~nullSeen)
            /\ call.name \in {"only_nulls.py", "SHOUT.PY"} => call.result
            /\ (call.name \in {"data.bin", ".env", "archive.tar.gz"}
                  /\ ~mimeText /\ f.readable) =>
                   (call.result <=> f.nullAt \notin {1, 1024})

\* An allowlisted file whose first byte is a null byte was classified text.
C7_Witness ==
    /\ call.fn = "is_text_file"
    /\ call.name = "only_nulls.py"
    /\ call.file.mime = ""
    /\ call.file.nullAt = 1
    /\ call.result

\* The regular files scan_directory has to record: below the root, with no
\* component of the full path in the skip set.
VisibleFiles ==
    {<<rootName>> \o p : p \in
        {q \in DOMAIN fs :
            /\ fs[q].kind = "file"
            /\ rootName \notin SKIP_DIRS
            /\ \A i \in 1..Len(q) : q[i] \notin SKIP_DIRS}}

RecordPaths == {files_content[i].path : i \in 1..Len(files_content)}

OnePerFile ==
    /\ RecordPaths = VisibleFiles
    /\ Len(files_content) = Cardinality(VisibleFiles)

\* The lines of the tree block of the document, <<>> when it has none.
TreeLines ==
    IF \E i \in 1..Len(out) : out[i].kind = "tree"
    THEN out[CHOOSE i \in 1..Len(out) : out[i].kind = "tree"].lines
    ELSE <<>>

\* The relative paths of the section headers of the document, in order.
Headers ==
    LET IsHeader(w) == w.kind = "header"
        hs == SelectSeq(out, IsHeader)
    IN  [i \in 1..Len(hs) |-> hs[i].path]

\* C1 as stated: no record of scan_directory has a path component in the
\* skip set, and no line of generate_tree's output names a member of the
\* skip set, for every root.
C1_NoSkipNameAnywhere ==
    /\ \A i \in 1..Len(files_content) :
         \A k \in 1..Len(files_content[i].path) :
             files_content[i].path[k] \notin SKIP_DIRS
    /\ \A i \in 1..Len(TreeLines) : TreeLines[i].name \notin SKIP_DIRS

\* C1 amended: no record of scan_directory has a path component in the skip
\* set, and no line of generate_tree's output after the first names an entry
\* that is in the skip set or lies below one; the first line is the name of
\* the root itself, whatever that name is.
C1_SkipSetPruned ==
    /\ \A i \in 1..Len(files_content) :
         \A k \in 1..Len(files_content[i].path) :
             files_content[i].path[k] \notin SKIP_DIRS
    /\ \A i \in 2..Len(TreeLines) :
         /\ TreeLines[i].name \notin SKIP_DIRS
         /\ \A k \in 1..Len(TreeLines[i].path) :
                TreeLines[i].path[k] \notin SKIP_DIRS

\* A tree was written for a directory that holds a skip-set entry with a
\* file below it, next to a file that was recorded.
C1_Witness ==
    /\ pc = "done"
    /\ tree_mode
    /\ files_content # <<>>
    /\ Len(TreeLines) >= 2
    /\ \E p \in DOMAIN fs :
         Len(p) = 2 /\ p[1] \in SKIP_DIRS /\ fs[p].kind = "file"

\* C2: with structure_only set, scan_directory classifies nothing and opens
\* nothing, every record it appends has empty content and an empty metrics
\* map, and when it returns there is one record for each non-pruned regular
\* file, binary and unreadable ones included.
C2_StructureOnlyReadsNothing ==
    (structure_only /\ pc \in {"scan", "done"}) =>
        /\ classified = {}
        /\ opened = {}
        /\ \A i \in 1..Len(files_content) :
             /\ files_content[i].content = ""
             /\ DOMAIN files_content[i].counts = {}
        /\ pc = "done" => OnePerFile

\* A structure-only scan returned records for an unreadable file and for a
\* file that holds a null byte.
C2_Witness ==
    /\ pc = "done"
    /\ structure_only
    /\ Len(files_content) = 2
    /\ \E p, q \in DOMAIN fs :
         /\ ~fs[p].readable
         /\ fs[q].readable /\ fs[q].nullAt = 1 /\ fs[q].mime = ""

\* Whether is_text_file has to open the file to decide.
NeedsSniff(p) ==
    LET f == fs[Tail(p)]
    IN  /\ ~(Len(f.mime) >= 4 /\ SubSeq(f.mime, 1, 4) = "text")
        /\ Lower(Suffix(p[Len(p)])) \notin text_extensions

Record(p) ==
    files_content[CHOOSE i \in 1..Len(files_content) : files_content[i].path = p]

SentinelFor(p) ==
    "[Error reading file: [Errno 13] Permission denied: '"
        \o PathStr(p) \o "']"

\* C3 as stated: in default mode scan_directory returns exactly one record
\* for each non-pruned regular file, and every file whose read raises gets
\* the error sentinel with the metrics of the sentinel string.
C3_EveryFailedReadIsSentinel ==
    (pc = "done" /\ ~structure_only) =>
        /\ OnePerFile
        /\ \A p \in VisibleFiles :
             ~fs[Tail(p)].readable =>
                 /\ Record(p).content = SentinelFor(p)
                 /\ \A k \in BaselineKeys :
                      Record(p).counts[k] = BaseCounts(SentinelFor(p))[k]

\* C3 amended: in default mode scan_directory returns exactly one record for
\* each non-pruned regular file; a file that is_text_file takes for text by
\* its MIME type or suffix and whose read then raises gets the error
\* sentinel embedding the message, with the metrics of the sentinel string;
\* an unreadable file that is_text_file has to sniff is recorded as a binary
\* file with all-zero metrics; the walk goes on after either.
C3_FailureDoesNotAbort ==
    /\ (pc = "scan" /\ pending # {}) => ENABLED Next
    /\ (pc = "done" /\ ~structure_only) =>
        /\ OnePerFile
        /\ \A p \in VisibleFiles :
             ~fs[Tail(p)].readable =>
                 IF NeedsSniff(p)
                 THEN /\ Record(p).content = "[Binary file]"
                      /\ \A k \in BaselineKeys : Record(p).counts[k] = 0
                 ELSE /\ Record(p).content = SentinelFor(p)
                      /\ \A k \in BaselineKeys :
                           Record(p).counts[k] = BaseCounts(SentinelFor(p))[k]
                      /\ Record(p).counts["words"] > 0

\* A default scan recorded the error sentinel for its first file and then
\* read the second file as text.
C3_Witness ==
    /\ pc = "done"
    /\ ~structure_only
    /\ Len(files_content) = 2
    /\ treated[files_content[1].path] = "error"
    /\ treated[files_content[2].path] = "text"

IsFlag(a) == a \in {"--path", "--path_tree"}

HasPathArg == \E i \in 2..Len(sys_argv) : ~IsFlag(sys_argv[i])

FirstPathArg ==
    sys_argv[CHOOSE i \in 2..Len(sys_argv) :
        ~IsFlag(sys_argv[i]) /\ \A j \in 2..(i - 1) : IsFlag(sys_argv[j])]

FlagCount == Cardinality({i \in 2..Len(sys_argv) : IsFlag(sys_argv[i])})

\* C4: on a command line without a directory path, one that holds only a
\* mode flag included, main prints the usage message and exits with nonzero
\* status, scans nothing and writes no output file.
C4_UsageWithoutPath ==
    (~HasPathArg /\ pc # "start") =>
        /\ "usage" \in Range(stdout)
        /\ exit_code > 0
        /\ files_content = <<>>
        /\ ~written

\* C5 as stated: whatever combination of the two flags the command line
\* holds beside an existing directory, and wherever they stand, the
\* directory main validates and scans is the first argument that is not a
\* flag.
C5_FirstNonFlagAnyFlags ==
    (/\ HasPathArg
     /\ IsDir(FirstPathArg)
     /\ \A i, j \in 2..Len(sys_argv) :
            (IsFlag(sys_argv[i]) /\ sys_argv[i] = sys_argv[j]) => i = j
     /\ pc # "start")
        => directory_path = <<FirstPathArg>>

\* C5 amended: on a command line that holds a directory path and at most one
\* occurrence of a flag (--path or --path_tree), in any position, the
\* directory main validates and scans is the first argument that is not a
\* flag.
C5_FirstNonFlagOneFlag ==
    (HasPathArg /\ FlagCount <= 1 /\ pc # "start") =>
        /\ directory_path = <<FirstPathArg>>
        /\ pc \in {"scan", "done"} =>
             \A p \in pending \cup RecordPaths : p[1] = FirstPathArg

\* A flag stood before the directory, and the directory was scanned.
C5_Witness ==
    /\ pc = "done"
    /\ Len(sys_argv) = 3
    /\ IsFlag(sys_argv[2])
    /\ files_content # <<>>
    /\ files_content[1].path[1] = sys_argv[3]

IsPrefix(a, b) == Len(a) <= Len(b) /\ SubSeq(b, 1, Len(a)) = a

\* The entries generate_tree has to list: those with no skip-set name on
\* their path below the root.
ListedEntries ==
    {p \in DOMAIN fs : \A k \in 1..Len(p) : p[k] \notin SKIP_DIRS}

\* C8: in generate_tree's output every level lists its directories before
\* its files, entries of one kind in case-insensitive name order; the
\* entries of a directory follow the directory's line depth first; the last
\* entry of a level carries the last-sibling connector and the others the
\* non-last one; a directory's children have the directory's prefix extended
\* by blanks when it was the last sibling and by a bar otherwise.
C8_TreeLayout ==
    (pc = "done" /\ tree_mode) =>
        LET L == TreeLines
            n == Len(L)
            Sib(i, j) == Parent(L[i].path) = Parent(L[j].path)
            Kind(i) == fs[L[i].path].kind
            LineOf(p) == CHOOSE i \in 2..n : L[i].path = p
        IN  /\ n = 1 + Cardinality(ListedEntries)
            /\ L[1].name = rootName
            /\ {L[i].path : i \in 2..n} = ListedEntries
            /\ \A i \in 2..n : L[i].name = L[i].path[Len(L[i].path)]
            /\ \A i, j \in 2..n : (i < j /\ Sib(i, j)) =>
                 /\ ~(Kind(i) = "file" /\ Kind(j) = "dir")
                 /\ Kind(i) = Kind(j) =>
                      ~StrLess(Lower(L[j].name), Lower(L[i].name))
            /\ \A j \in 2..n : Len(L[j].path) > 1 =>
                 \E i \in 2..(j - 1) :
                     /\ L[i].path = Parent(L[j].path)
                     /\ \A k \in (i + 1)..j : IsPrefix(L[i].path, L[k].path)
            /\ \A i \in 2..n :
                 L[i].connector =
                     IF \E j \in (i + 1)..n : Sib(i, j)
                     THEN MidConnector ELSE LastConnector
            /\ \A i \in 2..n :
                 L[i].prefix =
                     IF Len(L[i].path) = 1 THEN ""
                     ELSE LET d == LineOf(Parent(L[i].path))
                          IN  L[d].prefix
                              \o (IF L[d].connector = LastConnector
                                  THEN LastExtension ELSE MidExtension)

\* A tree with a directory that is not the last sibling, its file one level
\* below it behind a bar, and a file after the directory.
C8_Witness ==
    /\ pc = "done"
    /\ tree_mode
    /\ Len(TreeLines) = 4
    /\ LineText(TreeLines[2]) = "|-- a"
    /\ LineText(TreeLines[3]) = "|   L-- B"
    /\ LineText(TreeLines[4]) = "L-- B"
    /\ fs[<<"B">>].kind = "file"

\* C9: structure-only mode and default mode write the same sequence of
\* relative-path section headers for a directory: in either mode the headers
\* are the relative paths of the non-pruned regular files, each once, in
\* ascending path order, whatever the files hold and however they were
\* classified, and that sequence is fixed by the directory alone.
C9_SameHeadersBothModes ==
    (pc = "done" /\ ~tree_mode) =>
        /\ Len(Headers) = Cardinality(VisibleFiles)
        /\ {Headers[i] : i \in 1..Len(Headers)} = {Tail(p) : p \in VisibleFiles}
        /\ \A i \in 1..(Len(Headers) - 1) : PathLess(Headers[i], Headers[i + 1])

\* A default-mode document for a directory whose files were visited in
\* descending path order, one recorded as binary and one as unreadable.
C9_Witness ==
    /\ pc = "done"
    /\ ~structure_only
    /\ ~tree_mode
    /\ Len(files_content) = 2
    /\ PathLess(files_content[2].path, files_content[1].path)
    /\ treated[files_content[1].path] = "binary"
    /\ treated[files_content[2].path] = "error"
    /\ Len(Headers) = 2

\* C10: in default mode the note written for a file agrees with the walker:
\* the binary note only for files classified binary, the error note only for
\* files whose read raised, and every file read as text with non-whitespace
\* content written in full in a fenced code block.
C10_NoteMatchesWalker ==
    (pc = "done" /\ ~structure_only /\ ~tree_mode) =>
        /\ \A i \in 1..Len(out) :
             /\ out[i].kind = "binary_note" => treated[out[i].path] = "binary"
             /\ out[i].kind = "error_note" => treated[out[i].path] = "error"
        /\ \A p \in RecordPaths :
             (treated[p] = "text" /\ ~IsBlank(fs[Tail(p)].text)) =>
                 \E i \in 1..Len(out) :
                     /\ out[i].kind = "code"
                     /\ out[i].path = p
                     /\ out[i].text = fs[Tail(p)].text

====
